---- MODULE Spec2Model ----
(***************************************************************************)
(* A model of the delta-neutral options strategy: the PortfolioManager     *)
(* (src/src/strategy/portfolio.py), the DeltaNeutralStrategy signal        *)
(* generation (src/src/strategy/delta_neutral.py) and the TradingExecutor  *)
(* cycle with its paper and live backends (src/src/trading/*.py).          *)
(*                                                                         *)
(* Numbers.  Prices and quantities are integers.  A delta (per contract,   *)
(* aggregate, target or threshold) is an integer number of TENTHS, so the  *)
(* Decimal 0.5 is 5 and the threshold 1.0 is 10.  Decimal arithmetic is    *)
(* exact on these values, and float() of a Decimal is monotone and maps    *)
(* distinct values of this grid to distinct doubles, so the comparisons    *)
(* the code makes on floats are the comparisons made here on integers.     *)
(* A quotient that the code compares with a bound is compared by cross     *)
(* multiplication, with the sign of the divisor taken into account.        *)
(***************************************************************************)
EXTENDS Integers, Sequences, FiniteSets, TLC

VARIABLES
    positions,        \* strategy.portfolio.positions: insertion-ordered dict
    target_delta,     \* strategy.portfolio.target_delta (tenths)
    config,           \* strategy.config
    backend,          \* which TradingExecutor subclass drives the strategy
    paper_positions,  \* PaperTradingExecutor.positions (the executor's own dict)
    orders,           \* PaperTradingExecutor.orders
    market_data,      \* PaperTradingExecutor.market_data
    ret               \* what the last call did and returned

vars == <<positions, target_delta, config, backend, paper_positions, orders,
          market_data, ret>>

-----------------------------------------------------------------------------
(* Bounds of the model *)

\* most keyword arguments in one update_position call made by the host
MaxKwargs == 1
\* most signals in one execute_trades batch passed by the host
MaxBatch == 2
\* most orders the paper executor's order list holds
MaxOrders == 2

-----------------------------------------------------------------------------
(* Input domains *)

Symbols == {"NIFTY 100 CE", "NIFTY 100 PE"}
Quantities == {0, 1, 10}
EntryPrices == {0, 100}
Prices == {85, 90, 100, 115, 120}
Deltas == {-5, 0, 5}
TargetDeltas == {0, 10}
Thresholds == {0, 5, 10, 20}

Abs(x) == IF x < 0 THEN -x ELSE x

\* F applied to the value of v, which is computed once
With(v, F(_)) == CHOOSE r \in {F(x) : x \in {v}} : TRUE

-----------------------------------------------------------------------------
(* Python's insertion-ordered dict, as a sequence of [key, val] entries     *)
(* with pairwise distinct keys.                                            *)

EmptyDict == << >>

Keys(d) == {d[i].key : i \in DOMAIN d}

HasKey(d, k) == \E i \in DOMAIN d : d[i].key = k

IndexOf(d, k) == CHOOSE i \in DOMAIN d : d[i].key = k

Get(d, k) == d[IndexOf(d, k)].val

\* d[k] = v: a new key goes last, an existing key keeps its place
Put(d, k, v) ==
    IF HasKey(d, k)
    THEN [d EXCEPT ![IndexOf(d, k)] = [key |-> k, val |-> v]]
    ELSE Append(d, [key |-> k, val |-> v])

\* del d[k]
Del(d, k) == SelectSeq(d, LAMBDA e : e.key # k)

-----------------------------------------------------------------------------
(* Position *)

\* the symbol's last two characters, symbol[-2:]
SymbolSuffix(symbol) ==
    CASE symbol = "NIFTY 100 CE" -> "CE"
      [] symbol = "NIFTY 100 PE" -> "PE"
      [] OTHER -> "??"

Position(symbol, quantity, entry_price, current_price, delta, option_type, strike_price, expiry) ==
    [symbol |-> symbol, quantity |-> quantity, entry_price |-> entry_price,
     current_price |-> current_price, delta |-> delta,
     option_type |-> option_type, strike_price |-> strike_price,
     expiry |-> expiry]

pnl(pos) == (pos.current_price - pos.entry_price) * pos.quantity

\* mutant: the quantity left out of a position's delta contribution
net_delta_per_contract(pos) == pos.delta

net_delta(pos) == pos.delta * pos.quantity

\* the positions a host hands to add_position: marked at their entry price,
\* of every size and delta
DeltaPositionInputs ==
    {Position(s, q, 100, 100, d, SymbolSuffix(s), 100, "2024-01-31") :
        s \in Symbols, q \in Quantities, d \in Deltas}

\* the positions a host hands to add_position: of every size, entry price
\* and mark
PricePositionInputs ==
    {Position(s, q, e, c, 5, SymbolSuffix(s), 100, "2024-01-31") :
        s \in Symbols, q \in Quantities, e \in EntryPrices, c \in Prices}

-----------------------------------------------------------------------------
(* PortfolioManager *)

RECURSIVE SumNetDelta(_)
SumNetDelta(d) ==
    IF d = << >> THEN 0 ELSE net_delta(Head(d).val) + SumNetDelta(Tail(d))

\* sum(pos.net_delta for pos in self.positions.values())
total_delta(ps) == SumNetDelta(ps)

delta_deviation(ps, target) == total_delta(ps) - target

add_position(ps, position) == Put(ps, position.symbol, position)

remove_position(ps, symbol) == IF HasKey(ps, symbol) THEN Del(ps, symbol) ELSE ps

\* the names hasattr(position, key) accepts: the dataclass fields, which
\* setattr sets, and the read-only properties, on which setattr raises
Fields == {"symbol", "quantity", "entry_price", "current_price", "delta",
           "option_type", "strike_price", "expiry"}
Properties == {"pnl", "net_delta"}

\* setattr(position, key, value) for key in Fields
SetAttr(pos, key, value) == [pos EXCEPT ![key] = value]

\* the loop over kwargs.items(); stops at the first setattr that raises
RECURSIVE ApplyKwargs(_, _)
ApplyKwargs(pos, kwargs) ==
    IF kwargs = << >> THEN [pos |-> pos, raised |-> FALSE]
    ELSE LET kw == Head(kwargs) IN
         IF kw.key \in Fields
         THEN ApplyKwargs(SetAttr(pos, kw.key, kw.value), Tail(kwargs))
         ELSE IF kw.key \in Properties
         THEN [pos |-> pos, raised |-> TRUE]
         ELSE ApplyKwargs(pos, Tail(kwargs))

\* the parameters of update_position(self, symbol, **kwargs): a keyword
\* argument with one of these names is rejected when the call is bound
\* (TypeError: got multiple values for argument), before the body runs
BoundNames == {"self", "symbol"}

\* mutant: a keyword named like a parameter reaches the setattr loop
update_position_unbound(ps, symbol, kwargs) ==
    IF HasKey(ps, symbol)
    THEN LET r == ApplyKwargs(Get(ps, symbol), kwargs) IN
         [positions |-> [ps EXCEPT ![IndexOf(ps, symbol)].val = r.pos],
          raised |-> r.raised]
    ELSE [positions |-> ps, raised |-> FALSE]

\* returns the dict after the call and whether the call raised
update_position(ps, symbol, kwargs) ==
    IF \E i \in DOMAIN kwargs : kwargs[i].key \in BoundNames
    THEN [positions |-> ps, raised |-> TRUE]
    ELSE IF HasKey(ps, symbol)
    THEN LET r == ApplyKwargs(Get(ps, symbol), kwargs) IN
         [positions |-> [ps EXCEPT ![IndexOf(ps, symbol)].val = r.pos],
          raised |-> r.raised]
    ELSE [positions |-> ps, raised |-> FALSE]

Trade(action, option_type, td) ==
    [action |-> action, option_type |-> option_type, target_delta |-> td]

\* mutant: a deviation equal to the threshold already triggers a trade
get_adjustment_trades_strict(ps, target, threshold) ==
    LET deviation == delta_deviation(ps, target) IN
    IF Abs(deviation) < threshold THEN << >>
    ELSE IF deviation >= threshold
    THEN << Trade("BUY", "PE", -deviation) >>
    ELSE IF deviation <= -threshold
    THEN << Trade("BUY", "CE", Abs(deviation)) >>
    ELSE << >>

\* mutant: the put's target_delta carries the size of the deviation
get_adjustment_trades_unsigned(ps, target, threshold) ==
    LET deviation == delta_deviation(ps, target) IN
    IF Abs(deviation) <= threshold THEN << >>
    ELSE IF deviation > threshold
    THEN << Trade("BUY", "PE", Abs(deviation)) >>
    ELSE << Trade("BUY", "CE", Abs(deviation)) >>

\* mutant: the call's target_delta is the deviation itself, abs() forgotten
get_adjustment_trades_noabs(ps, target, threshold) ==
    LET deviation == delta_deviation(ps, target) IN
    IF Abs(deviation) <= threshold THEN << >>
    ELSE IF deviation > threshold
    THEN << Trade("BUY", "PE", -deviation) >>
    ELSE << Trade("BUY", "CE", deviation) >>

get_adjustment_trades(ps, target, threshold) ==
    LET deviation == delta_deviation(ps, target) IN
    IF Abs(deviation) <= threshold THEN << >>
    ELSE IF deviation > threshold
    THEN << Trade("BUY", "PE", -deviation) >>
    ELSE IF deviation < -threshold
    THEN << Trade("BUY", "CE", Abs(deviation)) >>
    ELSE << >>

-----------------------------------------------------------------------------
(* DeltaNeutralStrategy *)

\* the configurations a run is started with (percentages in percent,
\* target_delta and adjustment_threshold in tenths)
Config(td, mp, tpp, mlp) ==
    [target_delta |-> td, adjustment_threshold |-> 10, max_positions |-> mp,
     target_profit_percentage |-> tpp, max_loss_percentage |-> mlp]

\* mutant: the bound itself no longer counts
RatioGT(p, d, n) == IF d > 0 THEN 100 * p > n * d ELSE 100 * p < n * d

\* p / d >= n / 100, for d # 0
RatioGE(p, d, n) == IF d > 0 THEN 100 * p >= n * d ELSE 100 * p <= n * d

\* p / d <= n / 100, for d # 0
RatioLE(p, d, n) == IF d > 0 THEN 100 * p <= n * d ELSE 100 * p >= n * d

ExitSignal(symbol, quantity, reason) ==
    [symbol |-> symbol, action |-> "SELL", quantity |-> quantity, reason |-> reason]

\* the loop of get_exit_signals over self.portfolio.positions.items();
\* the division raises ZeroDivisionError on a zero entry_price * quantity
RECURSIVE ExitLoop(_, _, _)
ExitLoop(cfg, items, signals) ==
    IF items = << >> THEN [signals |-> signals, raised |-> FALSE]
    ELSE LET symbol == Head(items).key
             position == Head(items).val
             divisor == position.entry_price * position.quantity
             hit == RatioGE(pnl(position), divisor, cfg.target_profit_percentage)
             stop == RatioLE(pnl(position), divisor, -cfg.max_loss_percentage)
         IN  IF divisor = 0 THEN [signals |-> << >>, raised |-> TRUE]
             ELSE IF hit \/ stop
             THEN ExitLoop(cfg, Tail(items),
                      Append(signals, ExitSignal(symbol, position.quantity,
                                 IF hit THEN "target_hit" ELSE "stop_loss")))
             ELSE ExitLoop(cfg, Tail(items), signals)

get_exit_signals(cfg, ps) == ExitLoop(cfg, ps, << >>)

\* one symbol's entry of a market-data snapshot
Quote(last_price, delta) ==
    [last_price |-> last_price, delta |-> delta, instrument_type |-> "CE",
     strike |-> 100, expiry |-> "2024-01-31"]

\* mutant: the mark is written to entry_price as well
RECURSIVE UpdateLoopRebased(_, _, _)
UpdateLoopRebased(ps, symbols, snapshot) ==
    IF symbols = << >> THEN ps
    ELSE LET symbol == Head(symbols) IN
         IF HasKey(snapshot, symbol)
         THEN LET data == Get(snapshot, symbol) IN
              UpdateLoopRebased(update_position(ps, symbol,
                             << [key |-> "current_price", value |-> data.last_price],
                                [key |-> "entry_price", value |-> data.last_price],
                                [key |-> "delta", value |-> data.delta] >>).positions,
                         Tail(symbols), snapshot)
         ELSE UpdateLoopRebased(ps, Tail(symbols), snapshot)

\* the loop of update_positions over self.portfolio.positions.items()
RECURSIVE UpdateLoop(_, _, _)
UpdateLoop(ps, symbols, snapshot) ==
    IF symbols = << >> THEN ps
    ELSE LET symbol == Head(symbols) IN
         IF HasKey(snapshot, symbol)
         THEN LET data == Get(snapshot, symbol) IN
              UpdateLoop(update_position(ps, symbol,
                             << [key |-> "current_price", value |-> data.last_price],
                                [key |-> "delta", value |-> data.delta] >>).positions,
                         Tail(symbols), snapshot)
         ELSE UpdateLoop(ps, Tail(symbols), snapshot)

update_positions(ps, snapshot) ==
    UpdateLoop(ps, [i \in DOMAIN ps |-> ps[i].key], snapshot)

check_adjustment_needed(cfg, ps, target) ==
    LET adjustments == get_adjustment_trades(ps, target, cfg.adjustment_threshold)
    IN  [needs_adjustment |-> adjustments # << >>, adjustments |-> adjustments]

-----------------------------------------------------------------------------
(* DeltaNeutralStrategy: option selection, sizing and entry signals.       *)
(* An option of the chain is a record with the keys of the dict the code   *)
(* reads.  capital and prices are integers, position_sizing is an integer  *)
(* number of HUNDREDTHS (0.5 is 50), max_loss_percentage a whole percent.  *)

Min(a, b) == IF a <= b THEN a ELSE b
Max(a, b) == IF a >= b THEN a ELSE b

\* int(n / d) for d # 0: the quotient truncated toward zero
Trunc(n, d) ==
    IF (n >= 0) = (d > 0) THEN Abs(n) \div Abs(d) ELSE -(Abs(n) \div Abs(d))

\* seq[:n] for n >= 0
Take(seq, n) == SubSeq(seq, 1, Min(Len(seq), n))

\* mutant: the pair x put in front of the pairs with its own key
RECURSIVE InsertByKeyBeforeTies(_, _)
InsertByKeyBeforeTies(pairs, x) ==
    IF pairs = << >> THEN << x >>
    ELSE IF pairs[Len(pairs)].key < x.key THEN Append(pairs, x)
    ELSE Append(InsertByKeyBeforeTies(SubSeq(pairs, 1, Len(pairs) - 1), x), pairs[Len(pairs)])

\* the pair x put behind every pair whose key is not larger than its own
RECURSIVE InsertByKey(_, _)
InsertByKey(pairs, x) ==
    IF pairs = << >> THEN << x >>
    ELSE IF pairs[Len(pairs)].key <= x.key THEN Append(pairs, x)
    ELSE Append(InsertByKey(SubSeq(pairs, 1, Len(pairs) - 1), x), pairs[Len(pairs)])

RECURSIVE SortPairs(_)
SortPairs(pairs) ==
    IF pairs = << >> THEN << >>
    ELSE InsertByKey(SortPairs(SubSeq(pairs, 1, Len(pairs) - 1)), pairs[Len(pairs)])

\* the values of a list of pairs, in order
Vals(pairs) == [i \in DOMAIN pairs |-> pairs[i].val]

Spread(opt) == Abs(opt.bid_price - opt.ask_price)

Distance(opt, spot_price) == Abs(opt.strike - spot_price)

\* list.sort(key=spread): ascending and stable
SortBySpread(seq) ==
    Vals(SortPairs([i \in DOMAIN seq |-> [key |-> Spread(seq[i]), val |-> seq[i]]]))

\* list.sort(key=distance of the strike from spot_price): ascending and stable
SortByDistance(seq, spot_price) ==
    Vals(SortPairs([i \in DOMAIN seq |->
                       [key |-> Distance(seq[i], spot_price), val |-> seq[i]]]))

\* the options of one type, nearest strike first, cut to max_positions // 2
SelectSide(valid_options, option_type, spot_price, max_positions) ==
    LET options == SelectSeq(valid_options, LAMBDA opt : opt.instrument_type = option_type)
    IN  Take(SortByDistance(options, spot_price),
             max_positions \div 2)

\* mutant: the minimum-premium filter left out
select_options_unfiltered(cfg, spot_price, options_chain) ==
    LET valid_options == SortBySpread(options_chain)
    IN  Take(SelectSide(valid_options, "CE", spot_price, cfg.max_positions)
                 \o SelectSide(valid_options, "PE", spot_price, cfg.max_positions),
             cfg.max_positions)

\* mutant: the sides are not re-ranked by distance from the spot price
select_options_by_spread(cfg, spot_price, options_chain) ==
    LET valid_options ==
            SortBySpread(SelectSeq(options_chain,
                                   LAMBDA opt : opt.last_price >= cfg.min_premium))
        side(t) == Take(SelectSeq(valid_options, LAMBDA opt : opt.instrument_type = t),
                        cfg.max_positions \div 2)
    IN  Take(side("CE") \o side("PE"), cfg.max_positions)

select_options(cfg, spot_price, options_chain) ==
    LET valid_options ==
            SortBySpread(SelectSeq(options_chain,
                                   LAMBDA opt : opt.last_price >= cfg.min_premium))
    IN  Take(SelectSide(valid_options, "CE", spot_price, cfg.max_positions)
                 \o SelectSide(valid_options, "PE", spot_price, cfg.max_positions),
             cfg.max_positions)

\* mutant: the floor of one contract left out
calculate_position_size_unfloored(cfg, option) ==
    Trunc(Trunc(cfg.capital * cfg.max_loss_percentage, 100 * option.last_price)
              * cfg.position_sizing, 100)

\* max_risk / option_price is capital * max_loss_percentage / (100 * price)
calculate_position_size(cfg, option) ==
    LET max_quantity == Trunc(cfg.capital * cfg.max_loss_percentage,
                              100 * option.last_price)
        target_quantity == Trunc(max_quantity * cfg.position_sizing, 100)
    IN  Max(1, target_quantity)

EntrySignal(option, quantity) ==
    [symbol |-> option.symbol, action |-> "BUY", quantity |-> quantity,
     option_type |-> option.instrument_type, strike_price |-> option.strike,
     expiry |-> option.expiry]

-----------------------------------------------------------------------------
(* The PortfolioManager and the strategy's queries, called by a host *)

\* the keyword arguments a host passes to update_position
KwargInputs ==
    {[key |-> "delta", value |-> v] : v \in Deltas}
    \cup {[key |-> "quantity", value |-> v] : v \in Quantities}
    \cup {[key |-> "pnl", value |-> 0], [key |-> "volume", value |-> 0]}

\* **kwargs: at most MaxKwargs arguments, no name twice
KwargSeqs ==
    {kw \in UNION {[1..n -> KwargInputs] : n \in 0..MaxKwargs} :
        \A i, j \in DOMAIN kw : kw[i].key = kw[j].key => i = j}

NoBackend ==
    /\ backend = "none"
    /\ paper_positions = EmptyDict
    /\ orders = << >>
    /\ market_data = EmptyDict

InitPortfolio ==
    /\ config \in {Config(td, 2, 15, 10) : td \in TargetDeltas}
    /\ target_delta = config.target_delta
    /\ positions = EmptyDict
    /\ NoBackend
    /\ ret = [op |-> "init"]

AddPosition(position) ==
    /\ positions' = add_position(positions, position)
    /\ ret' = [op |-> "add_position", symbol |-> position.symbol]
    /\ UNCHANGED <<target_delta, config, backend, paper_positions, orders, market_data>>

RemovePosition(symbol) ==
    /\ positions' = remove_position(positions, symbol)
    /\ ret' = [op |-> "remove_position", symbol |-> symbol]
    /\ UNCHANGED <<target_delta, config, backend, paper_positions, orders, market_data>>

UpdatePosition(symbol, kwargs) ==
    LET r == update_position(positions, symbol, kwargs) IN
    /\ positions' = r.positions
    /\ ret' = [op |-> "update_position", symbol |-> symbol, raised |-> r.raised]
    /\ UNCHANGED <<target_delta, config, backend, paper_positions, orders, market_data>>

GetAdjustmentTrades(threshold) ==
    /\ ret' = [op |-> "get_adjustment_trades", threshold |-> threshold,
               value |-> get_adjustment_trades(positions, target_delta, threshold)]
    /\ UNCHANGED <<positions, target_delta, config, backend, paper_positions, orders, market_data>>

\* mutant: the positions that get an exit signal are closed by the query
GetExitSignalsClosing ==
    LET r == get_exit_signals(config, positions) IN
    /\ ret' = [op |-> "get_exit_signals", raised |-> r.raised, value |-> r.signals]
    /\ positions' = SelectSeq(positions, LAMBDA e :
                        \A i \in DOMAIN r.signals : r.signals[i].symbol # e.key)
    /\ UNCHANGED <<target_delta, config, backend, paper_positions, orders, market_data>>

GetExitSignals ==
    LET r == get_exit_signals(config, positions) IN
    /\ ret' = [op |-> "get_exit_signals", raised |-> r.raised, value |-> r.signals]
    /\ UNCHANGED <<positions, target_delta, config, backend, paper_positions, orders, market_data>>

UpdatePositions(snapshot) ==
    /\ positions' = update_positions(positions, snapshot)
    /\ ret' = [op |-> "update_positions"]
    /\ UNCHANGED <<target_delta, config, backend, paper_positions, orders, market_data>>

NextPortfolio ==
    \/ \E position \in DeltaPositionInputs : AddPosition(position)
    \/ \E symbol \in Symbols : RemovePosition(symbol)
    \/ \E symbol \in Symbols, kwargs \in KwargSeqs : UpdatePosition(symbol, kwargs)
    \/ \E threshold \in Thresholds : GetAdjustmentTrades(threshold)

SpecPortfolio == InitPortfolio /\ [][NextPortfolio]_vars

\* the market-data snapshots a host hands to update_positions: a quote for
\* any of the symbols
RECURSIVE SnapshotsOver(_)
SnapshotsOver(symbols) ==
    IF symbols = << >> THEN {EmptyDict}
    ELSE LET rest == SnapshotsOver(Tail(symbols)) IN
         rest \cup {<< [key |-> Head(symbols), val |-> Quote(p, 5)] >> \o r :
                       p \in Prices, r \in rest}

Snapshots == SnapshotsOver(<< "NIFTY 100 CE", "NIFTY 100 PE" >>)

InitExit ==
    /\ config \in {Config(0, 2, 15, 10), Config(0, 2, 0, 0)}
    /\ target_delta = config.target_delta
    /\ positions = EmptyDict
    /\ NoBackend
    /\ ret = [op |-> "init"]

NextExit ==
    \/ \E position \in PricePositionInputs : AddPosition(position)
    \/ \E symbol \in Symbols : RemovePosition(symbol)
    \/ \E snapshot \in Snapshots : UpdatePositions(snapshot)
    \/ GetExitSignals

SpecExit == InitExit /\ [][NextExit]_vars

-----------------------------------------------------------------------------
(* PaperTradingExecutor.  The executor keeps its own positions dict; the   *)
(* entry_price of its positions is a volume-weighted average, held here as *)
(* an exact fraction [num, den] (Decimal's 28-digit rounding is left out). *)

RECURSIVE GCD(_, _)
GCD(a, b) == IF b = 0 THEN a ELSE GCD(b, a % b)

\* n / d in lowest terms, for d > 0
Frac(n, d) ==
    LET g == GCD(Abs(n), d) IN
    IF g = 0 THEN [num |-> 0, den |-> 1] ELSE [num |-> n \div g, den |-> d \div g]

\* the executor's state: self.positions, self.orders, self.market_data
PaperState(pp, ords, md) == [positions |-> pp, orders |-> ords, market_data |-> md]

\* the simulated quote served while no market data is loaded
DefaultQuote == Quote(100, 5)

RECURSIVE SimulatedData(_, _)
SimulatedData(symbols, acc) ==
    IF symbols = << >> THEN acc
    ELSE SimulatedData(Tail(symbols), Put(acc, Head(symbols), DefaultQuote))

RECURSIVE FilteredData(_, _, _)
FilteredData(md, symbols, acc) ==
    IF symbols = << >> THEN acc
    ELSE FilteredData(md, Tail(symbols),
             IF HasKey(md, Head(symbols))
             THEN Put(acc, Head(symbols), Get(md, Head(symbols)))
             ELSE acc)

paper_get_market_data(md, symbols) ==
    IF md = EmptyDict
    THEN SimulatedData(symbols, EmptyDict)
    ELSE FilteredData(md, symbols, EmptyDict)

Order(symbol, quantity, side, price, order_id) ==
    [symbol |-> symbol, quantity |-> quantity, side |-> side, type |-> "MARKET",
     price |-> price, status |-> "COMPLETE", order_id |-> order_id]

NoOrder == [status |-> "NONE"]

\* mutant: the held and the new price averaged without their quantities
PaperBuyUnweighted(pp, symbol, quantity, data) ==
    IF ~HasKey(pp, symbol)
    THEN [raised |-> FALSE,
          positions |-> Put(pp, symbol,
              Position(symbol, quantity, Frac(data.last_price, 1), data.last_price,
                       data.delta, data.instrument_type, data.strike, data.expiry))]
    ELSE LET pos == Get(pp, symbol)
             total == pos.quantity + quantity
         IN  IF total = 0
             THEN [raised |-> TRUE, positions |-> pp]
             ELSE [raised |-> FALSE,
                   positions |-> Put(pp, symbol,
                       [pos EXCEPT !.quantity = total,
                                   !.entry_price =
                                       Frac(pos.entry_price.num
                                              + data.last_price * pos.entry_price.den,
                                            2 * pos.entry_price.den)])]

\* the BUY branch: a new position, or the held one merged at the average price
PaperBuy(pp, symbol, quantity, data) ==
    IF ~HasKey(pp, symbol)
    THEN [raised |-> FALSE,
          positions |-> Put(pp, symbol,
              Position(symbol, quantity, Frac(data.last_price, 1), data.last_price,
                       data.delta, data.instrument_type, data.strike, data.expiry))]
    ELSE LET pos == Get(pp, symbol)
             total == pos.quantity + quantity
             num == pos.entry_price.num * pos.quantity
                      + data.last_price * quantity * pos.entry_price.den
             den == pos.entry_price.den * total
         IN  IF total = 0
             THEN [raised |-> TRUE, positions |-> pp]
             ELSE [raised |-> FALSE,
                   positions |-> Put(pp, symbol,
                       [pos EXCEPT !.quantity = total,
                                   !.entry_price = IF den > 0 THEN Frac(num, den)
                                                   ELSE Frac(-num, -den)])]

\* mutant: a position sold down to exactly zero is kept
PaperSellKeepsZero(pp, symbol, quantity) ==
    IF HasKey(pp, symbol)
    THEN LET pos == Get(pp, symbol)
             left == pos.quantity - quantity
         IN  IF left < 0 THEN Del(pp, symbol)
             ELSE Put(pp, symbol, [pos EXCEPT !.quantity = left])
    ELSE pp

\* the SELL branch: the held quantity reduced, the position dropped at <= 0
PaperSell(pp, symbol, quantity) ==
    IF HasKey(pp, symbol)
    THEN LET pos == Get(pp, symbol)
             left == pos.quantity - quantity
         IN  IF left <= 0 THEN Del(pp, symbol)
             ELSE Put(pp, symbol, [pos EXCEPT !.quantity = left])
    ELSE pp

\* returns whether the call raised, the order it returned and the state it left
paper_place_order(st, symbol, quantity, side) ==
    LET md == paper_get_market_data(st.market_data, << symbol >>) IN
    IF md = EmptyDict \/ ~HasKey(md, symbol)
    THEN [raised |-> TRUE, order |-> NoOrder, st |-> st]
    ELSE LET data == Get(md, symbol)
             order == Order(symbol, quantity, side, data.last_price, Len(st.orders) + 1)
             ords == Append(st.orders, order)
         IN  IF side = "BUY"
             THEN LET b == PaperBuy(st.positions, symbol, quantity, data) IN
                  [raised |-> b.raised,
                   order |-> IF b.raised THEN NoOrder ELSE order,
                   st |-> PaperState(b.positions, ords, st.market_data)]
             ELSE IF side = "SELL"
             THEN [raised |-> FALSE, order |-> order,
                   st |-> PaperState(PaperSell(st.positions, symbol, quantity), ords,
                                     st.market_data)]
             ELSE [raised |-> FALSE, order |-> order,
                   st |-> PaperState(st.positions, ords, st.market_data)]

RECURSIVE DictUpdate(_, _)
DictUpdate(d, other) ==
    IF other = << >> THEN d
    ELSE DictUpdate(Put(d, Head(other).key, Head(other).val), Tail(other))

RECURSIVE MarkLoop(_, _, _)
MarkLoop(pp, i, snapshot) ==
    IF i > Len(pp) THEN pp
    ELSE IF HasKey(snapshot, pp[i].key)
    THEN LET data == Get(snapshot, pp[i].key) IN
         MarkLoop([pp EXCEPT ![i].val.current_price = data.last_price,
                             ![i].val.delta = data.delta], i + 1, snapshot)
    ELSE MarkLoop(pp, i + 1, snapshot)

simulate_market_update(st, snapshot) ==
    PaperState(MarkLoop(st.positions, 1, snapshot), st.orders,
               DictUpdate(st.market_data, snapshot))

-----------------------------------------------------------------------------
(* TradingExecutor *)

\* a signal from which place_order's arguments can be read
HasOrderKeys(signal) == {"symbol", "quantity", "action"} \subseteq DOMAIN signal

\* what execute_trades reports: the executor's state after it, the orders
\* it returned, the signals place_order was invoked for, the signals whose
\* attempt raised, and whether an exception left execute_trades
Batch(st, executed, calls, failed, raised) ==
    [st |-> st, executed |-> executed, calls |-> calls, failed |-> failed,
     raised |-> raised]

\* mutant: no try/except around the attempt, the first failure leaves the loop
RECURSIVE ExecLoopUnguarded(_, _, _, _)
ExecLoopUnguarded(st, signals, i, acc) ==
    IF i > Len(signals) THEN acc
    ELSE IF ~HasOrderKeys(signals[i])
    THEN [acc EXCEPT !.failed = @ \cup {i}, !.raised = TRUE]
    ELSE With(paper_place_order(st, signals[i].symbol, signals[i].quantity,
                                signals[i].action), LAMBDA r :
         IF r.raised
         THEN Batch(r.st, acc.executed, Append(acc.calls, i), acc.failed \cup {i}, TRUE)
         ELSE ExecLoopUnguarded(r.st, signals, i + 1,
                  Batch(r.st, Append(acc.executed, r.order), Append(acc.calls, i),
                        acc.failed, FALSE)))

\* the loop of execute_trades from signal i on: a signal whose keys cannot
\* be read (KeyError) or whose place_order raises is logged and skipped
RECURSIVE ExecLoop(_, _, _, _)
ExecLoop(st, signals, i, acc) ==
    IF i > Len(signals) THEN acc
    ELSE IF ~HasOrderKeys(signals[i])
    THEN ExecLoop(st, signals, i + 1, [acc EXCEPT !.failed = @ \cup {i}])
    ELSE With(paper_place_order(st, signals[i].symbol, signals[i].quantity,
                                signals[i].action), LAMBDA r :
         IF r.raised
         THEN ExecLoop(r.st, signals, i + 1,
                  Batch(r.st, acc.executed, Append(acc.calls, i), acc.failed \cup {i},
                        FALSE))
         ELSE ExecLoop(r.st, signals, i + 1,
                  Batch(r.st, Append(acc.executed, r.order), Append(acc.calls, i),
                        acc.failed, FALSE)))

NoBatch(st) == Batch(st, << >>, << >>, {}, FALSE)

execute_trades(st, signals) == ExecLoop(st, signals, 1, NoBatch(st))

\* the marks of the strategy's positions after update_portfolio
update_portfolio(st, ps) ==
    LET symbols == [i \in DOMAIN ps |-> ps[i].val.symbol] IN
    IF symbols # << >>
    THEN update_positions(ps, paper_get_market_data(st.market_data, symbols))
    ELSE ps

\* mutant: the gate on the number of open positions left out
get_entry_signals_ungated(cfg, ps, options_data) ==
    IF options_data = << >> \/ "underlying_price" \notin DOMAIN options_data[1]
    THEN [raised |-> TRUE, signals |-> << >>]
    ELSE LET selected == select_options(cfg, options_data[1].underlying_price,
                                        options_data)
         IN  [raised |-> FALSE,
              signals |-> [i \in DOMAIN selected |->
                             EntrySignal(selected[i],
                                         calculate_position_size(cfg, selected[i]))]]

\* options_data is the list of the options chain; monitor_and_execute passes
\* the dict that get_market_data([]) returns instead.  On an empty list
\* (IndexError), on that dict (KeyError) and on a first element without
\* underlying_price (KeyError) options_data[0]['underlying_price'] raises;
\* a selected option priced 0 raises ZeroDivisionError in the sizing
get_entry_signals(cfg, ps, options_data) ==
    IF Len(ps) >= cfg.max_positions
    THEN [raised |-> FALSE, signals |-> << >>]
    ELSE IF options_data = << >> \/ "underlying_price" \notin DOMAIN options_data[1]
    THEN [raised |-> TRUE, signals |-> << >>]
    ELSE LET selected == select_options(cfg, options_data[1].underlying_price,
                                        options_data)
         IN  IF \E i \in DOMAIN selected : selected[i].last_price = 0
             THEN [raised |-> TRUE, signals |-> << >>]
             ELSE [raised |-> FALSE,
                   signals |-> [i \in DOMAIN selected |->
                                  EntrySignal(selected[i],
                                              calculate_position_size(cfg, selected[i]))]]

check_and_adjust_portfolio(st, cfg, ps, target) ==
    LET c == check_adjustment_needed(cfg, ps, target) IN
    IF c.needs_adjustment
    THEN execute_trades(st, c.adjustments)
    ELSE NoBatch(st)

\* what a cycle reports: the state it leaves and what each step did.  steps
\* lists the steps that were begun, aborted the step whose exception ended
\* the cycle
CycleResult(ps, st, steps, aborted, exit_signals, exit_orders, entry_keys, deviation, adjust_calls) ==
    [positions |-> ps, st |-> st, steps |-> steps, aborted |-> aborted,
     exit_signals |-> exit_signals, exit_orders |-> exit_orders,
     entry_keys |-> entry_keys, deviation |-> deviation,
     adjust_calls |-> adjust_calls]

monitor_and_execute(st, cfg, ps, target) ==
    With(update_portfolio(st, ps), LAMBDA ps1 :
    With(get_exit_signals(cfg, ps1), LAMBDA ex :
      IF ex.raised
      THEN CycleResult(ps1, st, << "refresh", "exits" >>, "exits",
                       << >>, << >>, {}, 0, 0)
      ELSE
    With(IF ex.signals # << >> THEN execute_trades(st, ex.signals) ELSE NoBatch(st),
         LAMBDA exits :
    With(get_entry_signals(cfg, ps1,
                           paper_get_market_data(exits.st.market_data, << >>)),
         LAMBDA en :
      IF en.raised
      THEN CycleResult(ps1, exits.st, << "refresh", "exits", "entries" >>, "entries",
                       ex.signals, exits.executed, Keys(ps1), 0, 0)
      ELSE
    With(IF en.signals # << >> THEN execute_trades(exits.st, en.signals)
         ELSE NoBatch(exits.st),
         LAMBDA entries :
    With(check_and_adjust_portfolio(entries.st, cfg, ps1, target), LAMBDA adjust :
      CycleResult(ps1, adjust.st, << "refresh", "exits", "entries", "adjust" >>, "none",
                  ex.signals, exits.executed, Keys(ps1),
                  delta_deviation(ps1, target), Len(adjust.calls))))))))

-----------------------------------------------------------------------------
(* A paper-trading run: the host loads positions into the strategy's       *)
(* portfolio, feeds market data and runs cycles.                           *)

CyclePositionInputs ==
    {Position(s, q, 100, 100, 5, SymbolSuffix(s), 100, "2024-01-31") :
        s \in Symbols, q \in Quantities}

RECURSIVE CycleSnapshotsOver(_)
CycleSnapshotsOver(symbols) ==
    IF symbols = << >> THEN {EmptyDict}
    ELSE LET rest == CycleSnapshotsOver(Tail(symbols)) IN
         rest \cup {<< [key |-> Head(symbols), val |-> Quote(p, 5)] >> \o r :
                       p \in {100, 115}, r \in rest}

CycleSnapshots == CycleSnapshotsOver(<< "NIFTY 100 CE", "NIFTY 100 PE" >>) \ {EmptyDict}

Init ==
    /\ config \in {Config(0, mp, 15, 10) : mp \in {1, 2}}
    /\ target_delta = config.target_delta
    /\ positions = EmptyDict
    /\ backend = "paper"
    /\ paper_positions = EmptyDict
    /\ orders = << >>
    /\ market_data = EmptyDict
    /\ ret = [op |-> "init"]

HostAddPosition(position) ==
    /\ positions' = add_position(positions, position)
    /\ ret' = [op |-> "add_position", symbol |-> position.symbol]
    /\ UNCHANGED <<target_delta, config, backend, paper_positions, orders, market_data>>

SimulateMarketUpdate(snapshot) ==
    \E st \in {simulate_market_update(PaperState(paper_positions, orders, market_data),
                                       snapshot)} :
        /\ paper_positions' = st.positions
        /\ market_data' = st.market_data
        /\ ret' = [op |-> "simulate_market_update"]
        /\ UNCHANGED <<positions, target_delta, config, backend, orders>>

MonitorAndExecute ==
    \E r \in {monitor_and_execute(PaperState(paper_positions, orders, market_data),
                                   config, positions, target_delta)} :
        /\ Len(r.st.orders) <= MaxOrders
        /\ positions' = r.positions
        /\ paper_positions' = r.st.positions
        /\ orders' = r.st.orders
        /\ market_data' = r.st.market_data
        /\ ret' = [op |-> "monitor_and_execute", steps |-> r.steps,
                   aborted |-> r.aborted, exit_signals |-> r.exit_signals,
                   exit_orders |-> r.exit_orders, entry_keys |-> r.entry_keys,
                   deviation |-> r.deviation, adjust_calls |-> r.adjust_calls]
        /\ UNCHANGED <<target_delta, config, backend>>

Next ==
    \/ \E position \in CyclePositionInputs : HostAddPosition(position)
    \/ \E snapshot \in CycleSnapshots : SimulateMarketUpdate(snapshot)
    \/ MonitorAndExecute

Spec == Init /\ [][Next]_vars

-----------------------------------------------------------------------------
(* A paper-trading run in which the host places orders itself, one by one  *)
(* or as a batch of signals.                                               *)

ExecQuantities == {0, 1}

\* the signals a host hands to execute_trades
SignalInputs ==
    {[symbol |-> s, action |-> a, quantity |-> q] :
        s \in Symbols, a \in {"BUY", "SELL"}, q \in ExecQuantities}

SignalBatches == UNION {[1..n -> SignalInputs] : n \in 0..MaxBatch}

PlaceOrder(symbol, quantity, side) ==
    \E r \in {paper_place_order(PaperState(paper_positions, orders, market_data),
                                 symbol, quantity, side)} :
        /\ Len(r.st.orders) <= MaxOrders
        /\ paper_positions' = r.st.positions
        /\ orders' = r.st.orders
        /\ market_data' = r.st.market_data
        /\ ret' = [op |-> "place_order", symbol |-> symbol, quantity |-> quantity,
                   side |-> side, raised |-> r.raised, order |-> r.order]
        /\ UNCHANGED <<positions, target_delta, config, backend>>

ExecuteTrades(signals) ==
    \E r \in {execute_trades(PaperState(paper_positions, orders, market_data), signals)} :
        /\ Len(r.st.orders) <= MaxOrders
        /\ paper_positions' = r.st.positions
        /\ orders' = r.st.orders
        /\ market_data' = r.st.market_data
        /\ ret' = [op |-> "execute_trades", signals |-> signals,
                   executed |-> r.executed, calls |-> r.calls, failed |-> r.failed,
                   raised |-> r.raised]
        /\ UNCHANGED <<positions, target_delta, config, backend>>

NextExec ==
    \/ \E symbol \in Symbols, quantity \in ExecQuantities, side \in {"BUY", "SELL"} :
          PlaceOrder(symbol, quantity, side)
    \/ \E signals \in SignalBatches : ExecuteTrades(signals)
    \/ \E snapshot \in CycleSnapshots : SimulateMarketUpdate(snapshot)

InitExec == Init /\ config = Config(0, 2, 15, 10)

SpecExec == InitExec /\ [][NextExec]_vars

-----------------------------------------------------------------------------
(* The strategy's entry side, called by a host that holds an options       *)
(* chain: market_data is the chain (a list of option dicts) the host got   *)
(* from its data source.                                                   *)

\* most options in a chain
MaxChain == 3

Spots == {95, 100}
MinPremiums == {5, 30}
MaxPositions == 0..4

Option(symbol, last_price, bid_price, ask_price, instrument_type, strike, underlying_price) ==
    [symbol |-> symbol, last_price |-> last_price, bid_price |-> bid_price,
     ask_price |-> ask_price, instrument_type |-> instrument_type,
     strike |-> strike, expiry |-> "2024-01-31",
     underlying_price |-> underlying_price]

\* the options quoted when the underlying trades at spot
ChainOptions(spot) ==
    {Option("NIFTY 90 CE", 30, 29, 31, "CE", 90, spot),
     Option("NIFTY 100 CE", 5, 5, 6, "CE", 100, spot),
     Option("NIFTY 110 CE", 30, 30, 31, "CE", 110, spot),
     Option("NIFTY 90 PE", 200, 199, 200, "PE", 90, spot),
     Option("NIFTY 100 PE", 30, 29, 31, "PE", 100, spot),
     Option("NIFTY 110 PE", 5, 5, 6, "PE", 110, spot)}

\* the chains a data source delivers: no option twice, in any order
ChainsAt(spot) ==
    {c \in UNION {[1..n -> ChainOptions(spot)] : n \in 0..MaxChain} :
        \A i, j \in DOMAIN c : c[i] = c[j] => i = j}

Chains == UNION {ChainsAt(spot) : spot \in Spots}

EntryConfig(mp, min_premium, capital, position_sizing, mlp) ==
    Config(0, mp, 15, mlp) @@
    [min_premium |-> min_premium, capital |-> capital,
     position_sizing |-> position_sizing]

SelectConfigs == {EntryConfig(mp, m, 1000, 50, 10) : mp \in MaxPositions, m \in MinPremiums}

InitSelect ==
    /\ config \in SelectConfigs
    /\ target_delta = config.target_delta
    /\ positions = EmptyDict
    /\ backend = "none"
    /\ paper_positions = EmptyDict
    /\ orders = << >>
    /\ market_data \in Chains
    /\ ret = [op |-> "init"]

SelectOptions(spot_price) ==
    /\ ret' = [op |-> "select_options", spot_price |-> spot_price,
               value |-> select_options(config, spot_price, market_data)]
    /\ UNCHANGED <<positions, target_delta, config, backend, paper_positions, orders, market_data>>

NextSelect == \E spot_price \in Spots : SelectOptions(spot_price)

SpecSelect == InitSelect /\ [][NextSelect]_vars

\* the positions a host has open before it asks for entry signals
EntryPositionInputs ==
    {Position(s, 1, 100, 100, 5, SymbolSuffix(s), 100, "2024-01-31") : s \in Symbols}

InitEntry ==
    /\ config \in SelectConfigs \cup {EntryConfig(2, 5, 100, 100, 10)}
    /\ target_delta = config.target_delta
    /\ positions = EmptyDict
    /\ backend = "none"
    /\ paper_positions = EmptyDict
    /\ orders = << >>
    /\ market_data \in Chains
    /\ ret = [op |-> "init"]

GetEntrySignals ==
    \E r \in {get_entry_signals(config, positions, market_data)} :
        /\ ret' = [op |-> "get_entry_signals", raised |-> r.raised, value |-> r.signals]
        /\ UNCHANGED <<positions, target_delta, config, backend, paper_positions, orders, market_data>>

NextEntry ==
    \/ \E position \in EntryPositionInputs : AddPosition(position)
    \/ GetEntrySignals

SpecEntry == InitEntry /\ [][NextEntry]_vars

\* the capital, risk percentage and sizing factor of a configuration
Capitals == {100, 1000, 5000}
LossPercentages == {2, 10}
SizingFactors == {25, 50, 100}
Premiums == {1, 5, 30, 200, 1000}

SizeConfigs ==
    {EntryConfig(2, 5, c, f, l) : c \in Capitals, f \in SizingFactors, l \in LossPercentages}

\* the option a host asks a size for
SizeOptions == {Option("NIFTY 100 CE", p, p, p + 1, "CE", 100, 100) : p \in Premiums}

InitSize ==
    /\ config \in SizeConfigs
    /\ target_delta = config.target_delta
    /\ positions = EmptyDict
    /\ backend = "none"
    /\ paper_positions = EmptyDict
    /\ orders = << >>
    /\ market_data \in {<< opt >> : opt \in SizeOptions}
    /\ ret = [op |-> "init"]

CalculatePositionSize ==
    /\ ret' = [op |-> "calculate_position_size",
               value |-> calculate_position_size(config, market_data[1])]
    /\ UNCHANGED <<positions, target_delta, config, backend, paper_positions, orders, market_data>>

NextSize == CalculatePositionSize

SpecSize == InitSize /\ [][NextSize]_vars


-----------------------------------------------------------------------------
(* Cycles of a host that fills every entry signal and records the fill as  *)
(* a position of the strategy's portfolio, one position per symbol.        *)

\* the option of the chain a signal was emitted for
OptionOf(options_data, symbol) ==
    options_data[CHOOSE i \in DOMAIN options_data : options_data[i].symbol = symbol]

\* the position recorded for a filled BUY signal, at the option's price
FilledPosition(signal, option) ==
    Position(signal.symbol, signal.quantity, option.last_price, option.last_price,
             0, signal.option_type, signal.strike_price, signal.expiry)

\* add_position for every signal of the list, in order
RECURSIVE RecordFills(_, _, _)
RecordFills(ps, signals, options_data) ==
    IF signals = << >> THEN ps
    ELSE RecordFills(add_position(ps, FilledPosition(Head(signals),
                                          OptionOf(options_data, Head(signals).symbol))),
                     Tail(signals), options_data)

FillConfigs == {EntryConfig(mp, 5, 1000, 50, 10) : mp \in {2, 3}}

InitFill ==
    /\ config \in FillConfigs
    /\ target_delta = config.target_delta
    /\ positions = EmptyDict
    /\ backend = "none"
    /\ paper_positions = EmptyDict
    /\ orders = << >>
    /\ market_data = << >>
    /\ ret = [op |-> "init"]

\* one cycle's entry step on the chain the data source delivers
FillEntrySignals(options_data) ==
    \E r \in {get_entry_signals(config, positions, options_data)} :
        /\ positions' = IF r.raised THEN positions
                        ELSE RecordFills(positions, r.signals, options_data)
        /\ ret' = [op |-> "fill_entry_signals", raised |-> r.raised,
                   open_before |-> Len(positions), signals |-> r.signals]
        /\ UNCHANGED <<target_delta, config, backend, paper_positions, orders, market_data>>

NextFill == \E options_data \in ChainsAt(100) : FillEntrySignals(options_data)

SpecFill == InitFill /\ [][NextFill]_vars


-----------------------------------------------------------------------------
(* A host that holds one market-data snapshot (market_data) and applies it *)
(* to the strategy's positions with update_positions.                      *)

MarkPositionInputs ==
    {Position(s, q, 100, 100, 5, SymbolSuffix(s), 100, "2024-01-31") :
        s \in Symbols, q \in {1, 10}}

RECURSIVE MarkSnapshotsOver(_)
MarkSnapshotsOver(symbols) ==
    IF symbols = << >> THEN {EmptyDict}
    ELSE LET rest == MarkSnapshotsOver(Tail(symbols)) IN
         rest \cup {<< [key |-> Head(symbols), val |-> Quote(p, d)] >> \o r :
                       p \in {100, 115}, d \in {0, 5}, r \in rest}

MarkSnapshots == MarkSnapshotsOver(<< "NIFTY 100 CE", "NIFTY 100 PE" >>)

InitMarks ==
    /\ config = Config(0, 2, 15, 10)
    /\ target_delta = config.target_delta
    /\ positions = EmptyDict
    /\ backend = "none"
    /\ paper_positions = EmptyDict
    /\ orders = << >>
    /\ market_data \in MarkSnapshots
    /\ ret = [op |-> "init"]

NextMarks ==
    \/ \E position \in MarkPositionInputs : AddPosition(position)
    \/ UpdatePositions(market_data)

SpecMarks == InitMarks /\ [][NextMarks]_vars


-----------------------------------------------------------------------------
(* A paper-trading run in which the host buys and sells lots while the     *)
(* market moves.                                                           *)

LotQuantities == {0, 5, 10}

RECURSIVE LotSnapshotsOver(_)
LotSnapshotsOver(symbols) ==
    IF symbols = << >> THEN {EmptyDict}
    ELSE LET rest == LotSnapshotsOver(Tail(symbols)) IN
         rest \cup {<< [key |-> Head(symbols), val |-> Quote(p, 5)] >> \o r :
                       p \in {100, 110}, r \in rest}

LotSnapshots == LotSnapshotsOver(<< "NIFTY 100 CE", "NIFTY 100 PE" >>) \ {EmptyDict}

NextLots ==
    \/ \E symbol \in Symbols, quantity \in LotQuantities, side \in {"BUY", "SELL"} :
          PlaceOrder(symbol, quantity, side)
    \/ \E snapshot \in LotSnapshots : SimulateMarketUpdate(snapshot)

SpecLots == InitExec /\ [][NextLots]_vars


-----------------------------------------------------------------------------
(* LiveTradingExecutor: the handling of the broker's order updates, the    *)
(* one place where the live backend writes to the strategy's portfolio.    *)

\* int(symbol.split()[1])
SymbolStrike(symbol) ==
    CASE symbol = "NIFTY 100 CE" -> 100
      [] symbol = "NIFTY 100 PE" -> 100
      [] OTHER -> 0

\* symbol.split()[0]
SymbolHead(symbol) ==
    CASE symbol = "NIFTY 100 CE" -> "NIFTY"
      [] symbol = "NIFTY 100 PE" -> "NIFTY"
      [] OTHER -> "??"

\* an order update as the broker's websocket delivers it
OrderUpdate(tradingsymbol, quantity, average_price, transaction_type, status) ==
    [tradingsymbol |-> tradingsymbol, quantity |-> quantity,
     average_price |-> average_price, transaction_type |-> transaction_type,
     status |-> status]

\* the portfolio after _handle_order_update(order)
handle_order_update(ps, order) ==
    IF order.status = "COMPLETE"
    THEN IF order.transaction_type = "BUY"
         THEN add_position(ps,
                  Position(order.tradingsymbol, order.quantity, order.average_price,
                           order.average_price, 0, SymbolSuffix(order.tradingsymbol),
                           SymbolStrike(order.tradingsymbol),
                           SymbolHead(order.tradingsymbol)))
         ELSE remove_position(ps, order.tradingsymbol)
    ELSE ps

OrderUpdates ==
    {OrderUpdate(s, q, p, t, st) :
        s \in Symbols, q \in {5, 10}, p \in {100, 110}, t \in {"BUY", "SELL"},
        st \in {"COMPLETE", "OPEN"}}

InitLive ==
    /\ config = Config(0, 2, 15, 10)
    /\ target_delta = config.target_delta
    /\ positions = EmptyDict
    /\ backend = "live"
    /\ paper_positions = EmptyDict
    /\ orders = << >>
    /\ market_data = EmptyDict
    /\ ret = [op |-> "init"]

HandleOrderUpdate(order) ==
    /\ positions' = handle_order_update(positions, order)
    /\ ret' = [op |-> "handle_order_update", order |-> order]
    /\ UNCHANGED <<target_delta, config, backend, paper_positions, orders, market_data>>

NextLive == \E order \in OrderUpdates : HandleOrderUpdate(order)

SpecLive == InitLive /\ [][NextLive]_vars


-----------------------------------------------------------------------------
(* The trading window.  A time of day is an integer number of clock ticks  *)
(* since midnight; the configured start and end are times of day.          *)

\* start_time <= now <= end_time on datetime.time values
is_trading_time(cfg, now) ==
    cfg.trading_hours.start <= now /\ now <= cfg.trading_hours.end

\* the times of day the clock can show
LastTick == 11
Times == 0..LastTick

ClockConfigs ==
    {Config(0, 2, 15, 10) @@ [trading_hours |-> [start |-> s, end |-> e]] :
        s \in {2, 3, 4}, e \in {6, 7, 8}}

InitClock ==
    /\ config \in ClockConfigs
    /\ target_delta = config.target_delta
    /\ positions = EmptyDict
    /\ NoBackend
    /\ ret = [op |-> "init"]

\* one call of is_trading_time, made when the clock shows now
IsTradingTime(now) ==
    /\ ret' = [op |-> "is_trading_time", now |-> now,
               value |-> is_trading_time(config, now)]
    /\ UNCHANGED <<positions, target_delta, config, backend, paper_positions, orders, market_data>>

NextClock == \E now \in Times : IsTradingTime(now)

SpecClock == InitClock /\ [][NextClock]_vars


-----------------------------------------------------------------------------
(* ConfigManager.  A configuration document is the set of the paths it     *)
(* holds: << section >> for a section, << section, field >> for a field    *)
(* and << section, subsection, field >> for a nested field.                *)

\* most paths of the full document a document lacks
MaxMissing == 3

REQUIRED_FIELDS ==
    << [section |-> "trading",
        fields |-> << "mode", "capital", "max_loss_percentage",
                      "target_profit_percentage" >>],
       [section |-> "strategy",
        fields |-> << "target_delta", "position_sizing", "adjustment_threshold" >>],
       [section |-> "zerodha", fields |-> << "api_key", "api_secret" >>] >>

\* the loop over the fields of one section: the first field the document
\* lacks, << >> when none
RECURSIVE MissingField(_, _, _)
MissingField(doc, section, fields) ==
    IF fields = << >> THEN << >>
    ELSE IF << section, Head(fields) >> \notin doc THEN << section, Head(fields) >>
    ELSE MissingField(doc, section, Tail(fields))

\* the loop over REQUIRED_FIELDS.items(): the path named by the ValueError
\* that is raised, << >> when validation passes
RECURSIVE validate_config(_, _)
validate_config(doc, required) ==
    IF required = << >> THEN << >>
    ELSE IF << Head(required).section >> \notin doc THEN << Head(required).section >>
    ELSE LET missing == MissingField(doc, Head(required).section, Head(required).fields)
         IN  IF missing # << >> THEN missing
             ELSE validate_config(doc, Tail(required))

\* ConfigManager(path) on a file that holds doc: whether __init__ raised
config_manager_init(doc) ==
    LET missing == validate_config(doc, REQUIRED_FIELDS) IN
    [raised |-> missing # << >>, missing |-> missing]

\* the document with every section and field the system reads
FullDocument ==
    {<< "trading" >>, << "trading", "mode" >>, << "trading", "capital" >>,
     << "trading", "max_loss_percentage" >>,
     << "trading", "target_profit_percentage" >>,
     << "trading", "trading_hours" >>,
     << "trading", "trading_hours", "start" >>,
     << "trading", "trading_hours", "end" >>,
     << "strategy" >>, << "strategy", "target_delta" >>,
     << "strategy", "position_sizing" >>, << "strategy", "adjustment_threshold" >>,
     << "strategy", "min_premium" >>, << "strategy", "max_positions" >>,
     << "zerodha" >>, << "zerodha", "api_key" >>, << "zerodha", "api_secret" >>}

\* a path's parent is in the document with it
WellFormed(doc) ==
    \A p \in doc : Len(p) > 1 => SubSeq(p, 1, Len(p) - 1) \in doc

\* the documents a host may supply: the full one less a few paths
Documents ==
    {FullDocument \ m : m \in {x \in SUBSET FullDocument :
                                  /\ Cardinality(x) <= MaxMissing
                                  /\ WellFormed(FullDocument \ x)}}

InitConfig ==
    /\ config = Config(0, 2, 15, 10)
    /\ target_delta = config.target_delta
    /\ positions = EmptyDict
    /\ NoBackend
    /\ ret = [op |-> "init"]

\* the host constructs a ConfigManager over a file that holds doc
ConstructConfigManager(doc) ==
    \E r \in {config_manager_init(doc)} :
        /\ ret' = [op |-> "ConfigManager", doc |-> doc, raised |-> r.raised,
                   missing |-> r.missing]
        /\ UNCHANGED <<positions, target_delta, config, backend, paper_positions, orders, market_data>>

NextConfig == \E doc \in Documents : ConstructConfigManager(doc)

SpecConfig == InitConfig /\ [][NextConfig]_vars


-----------------------------------------------------------------------------
(* The signal-generating queries of the strategy, called by a host between *)
(* changes of the portfolio.                                               *)

QueryPositionInputs ==
    {Position(s, q, 100, c, 5, SymbolSuffix(s), 100, "2024-01-31") :
        s \in Symbols, q \in {0, 10}, c \in {100, 120}}

\* short chains of the options priced 30
QueryChains ==
    {c \in ChainsAt(100) :
        Len(c) <= 2 /\ \A i \in DOMAIN c : c[i].last_price = 30}

InitQueries ==
    /\ config \in {EntryConfig(mp, 5, 1000, 50, 10) : mp \in {2, 4}}
    /\ target_delta = config.target_delta
    /\ positions = EmptyDict
    /\ backend = "none"
    /\ paper_positions = EmptyDict
    /\ orders = << >>
    /\ market_data \in QueryChains
    /\ ret = [op |-> "init"]

CheckAdjustmentNeeded ==
    /\ ret' = [op |-> "check_adjustment_needed",
               value |-> check_adjustment_needed(config, positions, target_delta)]
    /\ UNCHANGED <<positions, target_delta, config, backend, paper_positions, orders, market_data>>

NextQueries ==
    \/ \E position \in QueryPositionInputs : AddPosition(position)
    \/ \E symbol \in Symbols : RemovePosition(symbol)
    \/ \E threshold \in Thresholds : GetAdjustmentTrades(threshold)
    \/ CheckAdjustmentNeeded
    \/ GetExitSignals
    \/ GetEntrySignals
    \/ \E spot_price \in Spots : SelectOptions(spot_price)

SpecQueries == InitQueries /\ [][NextQueries]_vars


-----------------------------------------------------------------------------
(* The position map under add_position, remove_position and                *)
(* update_position with keywords of every kind, symbol among them.         *)

KeyPositionInputs ==
    {Position(s, q, 100, 100, d, SymbolSuffix(s), 100, "2024-01-31") :
        s \in Symbols, q \in {1, 10}, d \in {0, 5}}

KeyKwargInputs ==
    {[key |-> "symbol", value |-> s] : s \in Symbols}
    \cup {[key |-> "quantity", value |-> q] : q \in {1, 10}}
    \cup {[key |-> "delta", value |-> d] : d \in {0, 5}}
    \cup {[key |-> "volume", value |-> 0]}

KeyKwargSeqs ==
    {kw \in UNION {[1..n -> KeyKwargInputs] : n \in 0..MaxKwargs} :
        \A i, j \in DOMAIN kw : kw[i].key = kw[j].key => i = j}

NextKeys ==
    \/ \E position \in KeyPositionInputs : AddPosition(position)
    \/ \E symbol \in Symbols : RemovePosition(symbol)
    \/ \E symbol \in Symbols, kwargs \in KeyKwargSeqs : UpdatePosition(symbol, kwargs)

SpecKeys == InitPortfolio /\ [][NextKeys]_vars


-----------------------------------------------------------------------------
(* get_exit_signals on long and short positions.                           *)

SignedPositionInputs ==
    {Position(s, q, 100, c, 5, SymbolSuffix(s), 100, "2024-01-31") :
        s \in Symbols, q \in {-10, 10}, c \in Prices}

InitSigned ==
    /\ config = Config(0, 2, 15, 10)
    /\ target_delta = config.target_delta
    /\ positions = EmptyDict
    /\ NoBackend
    /\ ret = [op |-> "init"]

NextSigned ==
    \/ \E position \in SignedPositionInputs : AddPosition(position)
    \/ GetExitSignals

SpecSigned == InitSigned /\ [][NextSigned]_vars


-----------------------------------------------------------------------------
(* Properties of the PortfolioManager (checked under SpecPortfolio) *)

\* delta * quantity of the position held under key k, 0 when k is no key
KeyNetDelta(k) ==
    IF HasKey(positions, k)
    THEN Get(positions, k).delta * Get(positions, k).quantity
    ELSE 0

RECURSIVE SumKeyNetDelta(_)
SumKeyNetDelta(S) ==
    IF S = {} THEN 0
    ELSE LET k == CHOOSE x \in S : TRUE
         IN  KeyNetDelta(k) + SumKeyNetDelta(S \ {k})

\* the sum of delta * quantity over exactly the keys now in the map
MapDelta == SumKeyNetDelta(Keys(positions))

\* the deviation the last get_adjustment_trades call was made on
Deviation == MapDelta - target_delta

AdjustmentReturned == ret.op = "get_adjustment_trades"

(* C1: after any sequence of add_position, remove_position and
   update_position calls, total_delta is the sum of delta * quantity over
   exactly the positions in the map, delta_deviation is that sum minus
   target_delta, and with an empty map delta_deviation is -target_delta. *)
C1_TotalDelta ==
    /\ total_delta(positions) = MapDelta
    /\ delta_deviation(positions, target_delta) = MapDelta - target_delta
    /\ positions = EmptyDict =>
           delta_deviation(positions, target_delta) = -target_delta

\* C1 witness: two positions held after an update, with a non-zero total
C1_Witness ==
    /\ ret.op = "update_position"
    /\ Len(positions) = 2
    /\ total_delta(positions) = 55
    /\ target_delta = 10

(* C2: get_adjustment_trades(threshold) returns the empty list iff
   |total_delta - target_delta| <= threshold; otherwise exactly one BUY
   trade, PE for a positive deviation and CE for a negative one. *)
C2_AdjustmentIff ==
    AdjustmentReturned =>
        /\ ret.value = << >> <=> Abs(Deviation) <= ret.threshold
        /\ ret.value # << >> =>
              /\ Len(ret.value) = 1
              /\ ret.value[1].action = "BUY"
              /\ Deviation > 0 => ret.value[1].option_type = "PE"
              /\ Deviation < 0 => ret.value[1].option_type = "CE"

\* C2 witness: a deviation exactly at a positive threshold, on either side
C2_Witness ==
    /\ AdjustmentReturned
    /\ ret.threshold > 0
    /\ Deviation = -ret.threshold
    /\ ret.value = << >>

(* C3 as stated: a positive deviation above the threshold gives a BUY PUT
   whose target_delta is the size of the deviation as a positive number. *)
C3_Original ==
    (AdjustmentReturned /\ Deviation > ret.threshold) =>
        /\ Len(ret.value) = 1
        /\ ret.value[1].option_type = "PE"
        /\ ret.value[1].target_delta = Deviation

(* C3 as amended: a positive deviation above the threshold gives the single
   trade BUY PUT whose target_delta is minus the deviation (target_delta 0,
   one CALL position of quantity 10 and delta 0.5, threshold 1: -5). *)
C3_PutTargetDelta ==
    (AdjustmentReturned /\ Deviation > ret.threshold) =>
        ret.value = << Trade("BUY", "PE", -Deviation) >>

\* C3 witness: the scenario itself (50 tenths above a target of 0,
\* threshold 10 tenths)
C3_Witness ==
    /\ AdjustmentReturned
    /\ target_delta = 0
    /\ ret.threshold = 10
    /\ Len(positions) = 1
    /\ positions[1].val.option_type = "CE"
    /\ positions[1].val.quantity = 10
    /\ positions[1].val.delta = 5
    /\ ret.value = << Trade("BUY", "PE", -50) >>

(* C4: the returned trade's target_delta is -deviation, a negative number,
   for BUY PUT and |deviation|, a positive number, for BUY CALL; adding it
   to total_delta gives the configured target_delta. *)
C4_TargetDeltaRestores ==
    (AdjustmentReturned /\ ret.value # << >>) =>
        LET trade == ret.value[1] IN
        /\ trade.option_type \in {"PE", "CE"}
        /\ trade.option_type = "PE" =>
              /\ Deviation > ret.threshold
              /\ trade.target_delta = -Deviation
              /\ trade.target_delta < 0
        /\ trade.option_type = "CE" =>
              /\ Deviation < -ret.threshold
              /\ trade.target_delta = Abs(Deviation)
              /\ trade.target_delta > 0
        /\ MapDelta + trade.target_delta = target_delta

\* C4 witness: a BUY CALL returned for a negative deviation
C4_Witness ==
    /\ AdjustmentReturned
    /\ Deviation < -ret.threshold
    /\ ret.value = << Trade("BUY", "CE", 60) >>

-----------------------------------------------------------------------------
(* Properties of get_exit_signals (checked under SpecExit) *)

\* num / den >= pct / 100 for den # 0, both sides multiplied by 100 * den^2
FractionAtLeast(num, den, pct) == 100 * num * den >= pct * den * den

\* num / den <= pct / 100 for den # 0
FractionAtMost(num, den, pct) == 100 * num * den <= pct * den * den

PositionPnl(p) == (p.current_price - p.entry_price) * p.quantity

TargetHit(p) ==
    FractionAtLeast(PositionPnl(p), p.entry_price * p.quantity,
                    config.target_profit_percentage)

StopLoss(p) ==
    FractionAtMost(PositionPnl(p), p.entry_price * p.quantity,
                   -config.max_loss_percentage)

\* the places in the map of the positions that are to be exited
ExitIndexes ==
    {i \in DOMAIN positions : TargetHit(positions[i].val) \/ StopLoss(positions[i].val)}

ExpectedExit(i) ==
    [symbol |-> positions[i].key, action |-> "SELL",
     quantity |-> positions[i].val.quantity,
     reason |-> IF TargetHit(positions[i].val) THEN "target_hit" ELSE "stop_loss"]

ExitReturned == ret.op = "get_exit_signals" /\ ~ret.raised

(* C10: get_exit_signals returns, for each open position, one SELL signal
   for the full quantity exactly when pnl / (entry_price * quantity) is
   >= target_profit_percentage/100 (reason target_hit) or
   <= -max_loss_percentage/100 (reason stop_loss), none for any other
   position, and target_hit when both hold. *)
C10_ExitSignals ==
    ExitReturned =>
        /\ Len(ret.value) = Cardinality(ExitIndexes)
        /\ \A i \in ExitIndexes :
              \E j \in DOMAIN ret.value : ret.value[j] = ExpectedExit(i)
        /\ \A j \in DOMAIN ret.value :
              \E i \in ExitIndexes : ret.value[j] = ExpectedExit(i)

\* C10 witness: the scenario (entry 100, mark 120, quantity 10, target 15
\* percent) beside a position that is not to be exited
C10_Witness ==
    /\ ExitReturned
    /\ config.target_profit_percentage = 15
    /\ Len(positions) = 2
    /\ positions[1].val.entry_price = 100
    /\ positions[1].val.current_price = 120
    /\ positions[1].val.quantity = 10
    /\ positions[2].val.current_price = 100
    /\ ret.value = << ExitSignal(positions[1].key, 10, "target_hit") >>

-----------------------------------------------------------------------------
(* Properties of the execution cycle (checked under Spec) *)

CycleReturned == ret.op = "monitor_and_execute"

(* C5: in every cycle the four steps all take place, in the order refresh
   marks, exits, entries, delta adjustment; none is skipped, whatever the
   portfolio and the market data. *)
C5_AllStepsInOrder ==
    CycleReturned =>
        /\ ret.steps = << "refresh", "exits", "entries", "adjust" >>
        /\ ret.aborted = "none"

(* C7: once a SELL exit signal for a position has been executed successfully,
   that position is no longer in the strategy's portfolio when
   get_entry_signals counts open positions in the same cycle. *)
C7_ExitsSettledBeforeEntries ==
    (CycleReturned /\ Len(ret.steps) >= 3) =>
        \A j \in DOMAIN ret.exit_orders :
            /\ ret.exit_orders[j].symbol \notin ret.entry_keys
            /\ ~HasKey(positions, ret.exit_orders[j].symbol)

(* C8: whenever |delta_deviation| exceeds adjustment_threshold at the
   adjustment step of a cycle, place_order is invoked once for the suggested
   trade; within the threshold no adjustment order is placed. *)
C8_AdjustmentOrderPlaced ==
    (CycleReturned /\ ret.aborted = "none") =>
        IF Abs(ret.deviation) > config.adjustment_threshold
        THEN ret.adjust_calls = 1
        ELSE ret.adjust_calls = 0

-----------------------------------------------------------------------------
(* Properties of order placement (checked under SpecExec) *)

(* C6: after the backend has filled a BUY order for a symbol, the strategy's
   PortfolioManager holds a position for that symbol. *)
C6_FilledBuyIsHeld ==
    (/\ ret.op = "place_order"
     /\ ~ret.raised
     /\ ret.side = "BUY"
     /\ ret.quantity > 0
     /\ ret.order.status = "COMPLETE") => HasKey(positions, ret.symbol)

BatchReturned == ret.op = "execute_trades"

\* the signals of the last batch whose attempt did not raise, in signal order
Succeeded == SelectSeq(ret.calls, LAMBDA i : i \notin ret.failed)

(* C9: in execute_trades every signal of a batch is attempted independently:
   whichever signals' place_order raises, place_order is still invoked for
   every later signal, no exception leaves execute_trades, and the returned
   list holds exactly the orders of the signals that succeeded, in signal
   order. *)
C9_SignalsIndependent ==
    BatchReturned =>
        /\ ~ret.raised
        /\ \A i \in ret.failed : \A j \in DOMAIN ret.signals :
              j > i => \E k \in DOMAIN ret.calls : ret.calls[k] = j
        /\ \A k, l \in DOMAIN ret.calls : k < l => ret.calls[k] < ret.calls[l]
        /\ \A i \in DOMAIN ret.signals :
              (market_data # EmptyDict /\ ~HasKey(market_data, ret.signals[i].symbol))
                  => i \in ret.failed
        /\ Len(ret.executed) = Len(Succeeded)
        /\ \A k \in DOMAIN ret.executed :
              /\ ret.executed[k].symbol = ret.signals[Succeeded[k]].symbol
              /\ ret.executed[k].quantity = ret.signals[Succeeded[k]].quantity
              /\ ret.executed[k].side = ret.signals[Succeeded[k]].action
              /\ ret.executed[k].status = "COMPLETE"

\* C9 witness: the first signal's place_order raised, the second was still
\* attempted and its order is the one returned
C9_Witness ==
    /\ BatchReturned
    /\ Len(ret.signals) = 2
    /\ ret.signals[1].action = "SELL"
    /\ ret.signals[2].action = "BUY"
    /\ ret.failed = {1}
    /\ ret.calls = << 1, 2 >>
    /\ Len(ret.executed) = 1
    /\ ret.executed[1].symbol = ret.signals[2].symbol

-----------------------------------------------------------------------------
(* Properties of get_exit_signals on degenerate positions (checked under    *)
(* SpecExit)                                                               *)

\* the places in the map of the positions with a zero entry_price or quantity
ZeroDivisorIndexes ==
    {i \in DOMAIN positions :
        positions[i].val.entry_price * positions[i].val.quantity = 0}

(* C11: get_exit_signals never fails on a position whose entry_price or
   quantity is zero: the call returns, such a position produces no exit
   signal, and the other positions' signals are still returned. *)
C11_ZeroDivisorGuarded ==
    ret.op = "get_exit_signals" =>
        /\ ~ret.raised
        /\ \A i \in ZeroDivisorIndexes :
              \A j \in DOMAIN ret.value : ret.value[j].symbol # positions[i].key
        /\ \A i \in ExitIndexes \ ZeroDivisorIndexes :
              \E j \in DOMAIN ret.value : ret.value[j] = ExpectedExit(i)

-----------------------------------------------------------------------------
(* Properties of entry-signal generation (checked under SpecEntry) *)

EntryReturned == ret.op = "get_entry_signals"

(* C12: when the options chain handed to get_entry_signals is empty, the
   call returns an empty signal list without raising (so that the cycle can
   go on to the delta-adjustment step). *)
C12_EmptyChainNoSignals ==
    (EntryReturned /\ market_data = << >>) =>
        /\ ~ret.raised
        /\ ret.value = << >>

\* the options select_options picks from the chain the host holds
SelectedNow == select_options(config, market_data[1].underlying_price, market_data)

(* C13: get_entry_signals returns the empty list whenever the number of
   open positions is >= max_positions, whatever the options data; otherwise
   what it returns is exactly one BUY signal per option select_options
   returns, in the same order, each with quantity
   calculate_position_size(option). *)
C13_GateThenOnePerOption ==
    EntryReturned =>
        /\ Len(positions) >= config.max_positions =>
              (~ret.raised /\ ret.value = << >>)
        /\ (Len(positions) < config.max_positions /\ ~ret.raised) =>
              /\ Len(ret.value) = Len(SelectedNow)
              /\ \A i \in DOMAIN ret.value :
                    /\ ret.value[i].symbol = SelectedNow[i].symbol
                    /\ ret.value[i].action = "BUY"
                    /\ ret.value[i].option_type = SelectedNow[i].instrument_type
                    /\ ret.value[i].strike_price = SelectedNow[i].strike
                    /\ ret.value[i].quantity =
                           calculate_position_size(config, SelectedNow[i])

\* C13 witness: one position open under max_positions = 2, and two signals
\* returned, the first for more than one contract
C13_Witness ==
    /\ EntryReturned
    /\ ~ret.raised
    /\ Len(positions) = 1
    /\ config.max_positions = 2
    /\ Len(ret.value) = 2
    /\ ret.value[1].option_type = "CE"
    /\ ret.value[1].quantity > 1
    /\ ret.value[2].option_type = "PE"

-----------------------------------------------------------------------------
(* Properties of select_options (checked under SpecSelect) *)

SelectReturned == ret.op = "select_options"

(* C15: select_options returns at most max_positions options, every one of
   them an element of the chain, none with last_price below min_premium; an
   option priced exactly at min_premium is eligible. *)
C15_SelectionBounded ==
    SelectReturned =>
        /\ Len(ret.value) <= config.max_positions
        /\ \A i \in DOMAIN ret.value :
              /\ \E j \in DOMAIN market_data : market_data[j] = ret.value[i]
              /\ ret.value[i].last_price >= config.min_premium
        /\ (/\ config.max_positions >= 2
            /\ Len(market_data) = 1
            /\ market_data[1].last_price = config.min_premium) => ret.value = market_data

\* C15 witness: as many options as max_positions allows are returned, one of
\* them priced exactly at min_premium, from a chain that also holds an
\* option priced below it
C15_Witness ==
    /\ SelectReturned
    /\ config.max_positions = 2
    /\ Len(ret.value) = 2
    /\ \E i \in DOMAIN ret.value : ret.value[i].last_price = config.min_premium
    /\ \E j \in DOMAIN market_data : market_data[j].last_price < config.min_premium

\* the places in the chain of the options of a type that pass the premium filter
Eligible(t) ==
    {j \in DOMAIN market_data :
        /\ market_data[j].instrument_type = t
        /\ market_data[j].last_price >= config.min_premium}

\* the options of a type among those returned, in the order returned
Side(t) == SelectSeq(ret.value, LAMBDA opt : opt.instrument_type = t)

SideClosestFirst(t) ==
    /\ Len(Side(t)) = Min(config.max_positions \div 2, Cardinality(Eligible(t)))
    /\ \A i \in DOMAIN Side(t) : \E j \in Eligible(t) : market_data[j] = Side(t)[i]
    /\ \A i, k \in DOMAIN Side(t) :
          i < k => /\ Distance(Side(t)[i], ret.spot_price)
                        <= Distance(Side(t)[k], ret.spot_price)
                   /\ Side(t)[i] # Side(t)[k]
    /\ \A j \in Eligible(t) :
          (\A i \in DOMAIN Side(t) : Side(t)[i] # market_data[j]) =>
              \A i \in DOMAIN Side(t) :
                  Distance(Side(t)[i], ret.spot_price)
                      <= Distance(market_data[j], ret.spot_price)

(* C16: per option type select_options returns the
   min(max_positions // 2, number eligible) eligible options whose strike is
   closest to the spot price, closest first, all CE before all PE; with
   max_positions = 1 it returns nothing, with an odd max_positions at most
   max_positions - 1 options. *)
C16_ClosestPerSide ==
    SelectReturned =>
        /\ ret.value = Side("CE") \o Side("PE")
        /\ SideClosestFirst("CE")
        /\ SideClosestFirst("PE")
        /\ config.max_positions = 1 => ret.value = << >>
        /\ config.max_positions % 2 = 1 => Len(ret.value) <= config.max_positions - 1

\* C16 witness: an odd max_positions, two eligible calls of which the one
\* later in the chain is nearer the spot price, and one put
C16_Witness ==
    /\ SelectReturned
    /\ config.max_positions = 3
    /\ Len(market_data) = 3
    /\ Eligible("CE") = {1, 2}
    /\ Eligible("PE") = {3}
    /\ Distance(market_data[2], ret.spot_price) < Distance(market_data[1], ret.spot_price)
    /\ ret.value = << market_data[2], market_data[3] >>

\* the place of the option at place j of the chain in the list returned, 0
\* when it is not returned
Rank(j) ==
    IF \E i \in DOMAIN ret.value : ret.value[i] = market_data[j]
    THEN CHOOSE i \in DOMAIN ret.value : ret.value[i] = market_data[j]
    ELSE 0

\* of two options at the same distance, the one at place a of the chain is
\* due before the one at place b
DueBefore(a, b) ==
    \/ Spread(market_data[a]) < Spread(market_data[b])
    \/ Spread(market_data[a]) = Spread(market_data[b]) /\ a < b

(* C25: between two eligible options of the same type at the same distance
   of the strike from the spot price, select_options ranks the one with the
   smaller bid-ask spread first and, when the spreads are equal too, the one
   earlier in the chain first: the later one is returned only behind the
   earlier one. *)
C25_TieBreakBySpreadThenChainOrder ==
    SelectReturned =>
        \A t \in {"CE", "PE"} : \A a, b \in Eligible(t) :
            (/\ Distance(market_data[a], ret.spot_price)
                    = Distance(market_data[b], ret.spot_price)
             /\ DueBefore(a, b)
             /\ Rank(b) > 0) => (Rank(a) > 0 /\ Rank(a) < Rank(b))

\* C25 witness: two calls at the same distance from the spot price are both
\* returned, the one later in the chain first because its spread is smaller
C25_Witness ==
    /\ SelectReturned
    /\ \E a, b \in Eligible("CE") :
          /\ a < b
          /\ Distance(market_data[a], ret.spot_price)
                 = Distance(market_data[b], ret.spot_price)
          /\ Spread(market_data[b]) < Spread(market_data[a])
          /\ Rank(b) > 0
          /\ Rank(a) > Rank(b)

\* two puts with equal distance and equal spread are returned in chain order
C25_EqualSpreadReturned ==
    /\ SelectReturned
    /\ \E a, b \in Eligible("PE") :
          /\ a < b
          /\ Distance(market_data[a], ret.spot_price)
                 = Distance(market_data[b], ret.spot_price)
          /\ Spread(market_data[b]) = Spread(market_data[a])
          /\ Rank(a) > 0
          /\ Rank(b) > Rank(a)

-----------------------------------------------------------------------------
(* Properties of calculate_position_size (checked under SpecSize) *)

SizeReturned == ret.op = "calculate_position_size"

\* floor(n / d) for n >= 0 and d > 0: the largest q with q * d <= n
FloorDiv(n, d) == CHOOSE q \in 0..n : q * d <= n /\ (q + 1) * d > n

\* floor(floor(capital * max_loss_percentage/100 / price) * position_sizing)
FlooredSize ==
    FloorDiv(FloorDiv(config.capital * config.max_loss_percentage,
                      100 * market_data[1].last_price) * config.position_sizing, 100)

(* C17: calculate_position_size returns an integer >= 1 for every positive
   option price and positive capital, also when
   floor(floor(capital * max_loss_percentage/100 / price) * position_sizing)
   is 0; when that floored value is >= 1 the result equals it. *)
C17_AtLeastOneContract ==
    SizeReturned =>
        /\ ret.value \in Nat
        /\ ret.value >= 1
        /\ FlooredSize >= 1 => ret.value = FlooredSize

\* C17 witness: the risk budget buys 2 contracts, the sizing factor 0.25
\* floors them to 0, and 1 is returned
C17_Witness ==
    /\ SizeReturned
    /\ config.capital = 100
    /\ config.max_loss_percentage = 10
    /\ config.position_sizing = 25
    /\ market_data[1].last_price = 5
    /\ FlooredSize = 0
    /\ ret.value = 1

-----------------------------------------------------------------------------
(* Properties of the position count (checked under SpecFill) *)

(* C14: starting from an empty portfolio, after any sequence of cycles in
   which every emitted entry signal is filled and recorded as a position
   (one position per distinct symbol), the number of open positions is at
   most max_positions in every reachable state. *)
C14_PositionCountBounded == Len(positions) <= config.max_positions

-----------------------------------------------------------------------------
(* Properties of update_positions (checked under SpecMarks) *)

\* position i after an update_positions step, given the snapshot applied
MarkedFrom(i) ==
    IF HasKey(market_data, positions[i].key)
    THEN /\ positions'[i].val.current_price = Get(market_data, positions[i].key).last_price
         /\ positions'[i].val.delta = Get(market_data, positions[i].key).delta
         /\ \A f \in Fields \ {"current_price", "delta"} :
               positions'[i].val[f] = positions[i].val[f]
    ELSE positions'[i].val = positions[i].val

(* C18: update_positions(market_data) sets current_price and delta of every
   open position whose symbol is in the snapshot to the snapshot's
   last_price and delta and changes nothing else: positions absent from the
   snapshot keep all their fields, no position is added or removed, and
   quantity and entry_price of every position stay as they were. *)
C18_UpdatePositionsFrame ==
    [][ret'.op = "update_positions" =>
          /\ Len(positions') = Len(positions)
          /\ \A i \in DOMAIN positions :
                /\ positions'[i].key = positions[i].key
                /\ DOMAIN positions'[i].val = Fields
                /\ MarkedFrom(i)
                /\ positions'[i].val.quantity = positions[i].val.quantity
                /\ positions'[i].val.entry_price = positions[i].val.entry_price]_vars

\* C18 witness: after update_positions the quoted position carries the new
\* price and delta beside its old entry price, and the position that is not
\* quoted still has its old mark
C18_Witness ==
    /\ ret.op = "update_positions"
    /\ Len(positions) = 2
    /\ Keys(market_data) = {positions[1].key}
    /\ Get(market_data, positions[1].key) = Quote(115, 0)
    /\ positions[1].val.current_price = 115
    /\ positions[1].val.delta = 0
    /\ positions[1].val.entry_price = 100
    /\ positions[1].val.quantity = 10
    /\ positions[2].val.current_price = 100
    /\ positions[2].val.delta = 5

-----------------------------------------------------------------------------
(* Properties of update_position (checked under SpecPortfolio) *)

\* the fields update_position is meant to change
MutableFields == {"current_price", "delta"}

(* C19: PortfolioManager.update_position never raises and is a no-op for
   what it does not know: for an absent symbol the portfolio is unchanged,
   and a field name other than current_price and delta is ignored, so the
   position's symbol, quantity, entry_price, option_type, strike_price and
   expiry stay as they were; positions of other symbols are untouched. *)
C19_UpdatePositionIgnoresUnknown ==
    [][ret'.op = "update_position" =>
          /\ ~ret'.raised
          /\ ~HasKey(positions, ret'.symbol) => positions' = positions
          /\ Len(positions') = Len(positions)
          /\ \A i \in DOMAIN positions :
                /\ positions'[i].key = positions[i].key
                /\ positions[i].key # ret'.symbol => positions'[i] = positions[i]
                /\ \A f \in Fields \ MutableFields :
                      positions'[i].val[f] = positions[i].val[f]]_vars

-----------------------------------------------------------------------------
(* Properties of the paper backend's position book (checked under SpecLots) *)

\* the orders placed for a symbol on one side, in the order placed
OrdersOf(symbol, side) ==
    SelectSeq(orders, LAMBDA o : o.symbol = symbol /\ o.side = side)

RECURSIVE SumQuantity(_)
SumQuantity(ords) ==
    IF ords = << >> THEN 0 ELSE Head(ords).quantity + SumQuantity(Tail(ords))

RECURSIVE SumCost(_)
SumCost(ords) ==
    IF ords = << >> THEN 0
    ELSE Head(ords).price * Head(ords).quantity + SumCost(Tail(ords))

(* C20: in the paper backend, after any sequence of filled BUY orders of
   one symbol with no SELL in between, the held position's quantity is the
   sum of the bought quantities and its entry_price is the volume-weighted
   average of the fill prices. *)
C20_VolumeWeightedEntry ==
    \A s \in Symbols :
        (OrdersOf(s, "BUY") # << >> /\ OrdersOf(s, "SELL") = << >>) =>
            /\ HasKey(paper_positions, s)
            /\ Get(paper_positions, s).quantity = SumQuantity(OrdersOf(s, "BUY"))
            /\ SumQuantity(OrdersOf(s, "BUY")) > 0 =>
                  Get(paper_positions, s).entry_price.num * SumQuantity(OrdersOf(s, "BUY"))
                      = SumCost(OrdersOf(s, "BUY")) * Get(paper_positions, s).entry_price.den

\* C20 witness: 10 bought at 100, then 5 at 110: 15 held at 1550/15 = 310/3
C20_Witness ==
    /\ ret.op = "place_order"
    /\ Len(orders) = 2
    /\ orders[1].symbol = orders[2].symbol
    /\ orders[1].side = "BUY" /\ orders[1].quantity = 10 /\ orders[1].price = 100
    /\ orders[2].side = "BUY" /\ orders[2].quantity = 5 /\ orders[2].price = 110
    /\ Get(paper_positions, orders[1].symbol).quantity = 15
    /\ Get(paper_positions, orders[1].symbol).entry_price = [num |-> 310, den |-> 3]

\* every order placed so far was for a positive quantity
PositiveOrders(ords) == \A i \in DOMAIN ords : ords[i].quantity > 0

(* C21: after any sequence of BUY and SELL orders with positive order
   quantities on the paper backend, each held position has quantity > 0,
   and a SELL whose quantity is greater than or equal to the held quantity
   removes the symbol from the position map. *)
C21_HeldQuantityPositive ==
    [][PositiveOrders(orders') =>
          /\ \A i \in DOMAIN paper_positions' : paper_positions'[i].val.quantity > 0
          /\ (/\ ret'.op = "place_order"
              /\ ~ret'.raised
              /\ ret'.side = "SELL"
              /\ HasKey(paper_positions, ret'.symbol)) =>
                IF ret'.quantity >= Get(paper_positions, ret'.symbol).quantity
                THEN ~HasKey(paper_positions', ret'.symbol)
                ELSE /\ HasKey(paper_positions', ret'.symbol)
                     /\ Get(paper_positions', ret'.symbol).quantity
                            = Get(paper_positions, ret'.symbol).quantity - ret'.quantity]_vars

\* C21 witness: 5 bought, then 5 sold: the symbol is gone from the map
C21_Witness ==
    /\ ret.op = "place_order"
    /\ ret.side = "SELL"
    /\ ~ret.raised
    /\ Len(orders) = 2
    /\ orders[1].side = "BUY" /\ orders[1].quantity = 5
    /\ orders[2].side = "SELL" /\ orders[2].quantity = 5
    /\ orders[1].symbol = orders[2].symbol
    /\ ~HasKey(paper_positions, ret.symbol)

\* the price place_order reads for a symbol in the state before the call
LastPrice(symbol) ==
    Get(paper_get_market_data(market_data, << symbol >>), symbol).last_price

(* C27: the paper backend's place_order is all-or-nothing: a call that
   raises leaves the order list and the position map exactly as they were;
   a call that returns has appended exactly one order, with status COMPLETE,
   priced at the symbol's last_price and numbered with the new length of the
   order list, and a SELL of a symbol that is not held leaves the position
   map unchanged. *)
C27_PlaceOrderAllOrNothing ==
    [][ret'.op = "place_order" =>
          IF ret'.raised
          THEN orders' = orders /\ paper_positions' = paper_positions
          ELSE /\ orders' = Append(orders, ret'.order)
               /\ ret'.order.status = "COMPLETE"
               /\ ret'.order.price = LastPrice(ret'.symbol)
               /\ ret'.order.order_id = Len(orders')
               /\ (ret'.side = "SELL" /\ ~HasKey(paper_positions, ret'.symbol))
                     => paper_positions' = paper_positions]_vars

-----------------------------------------------------------------------------
(* Properties of the live backend's order-update handling (checked under   *)
(* SpecLive)                                                               *)

(* C22: a position leaves the strategy's PortfolioManager only when SELL
   fills have brought its quantity to zero: a completed SELL of fewer
   contracts than are held leaves the position in the portfolio with its
   quantity reduced by the sold amount, and a completed BUY of an
   already-held symbol increases the held quantity. *)
C22_PartialFillsKeepPosition ==
    [][(/\ ret'.op = "handle_order_update"
        /\ ret'.order.status = "COMPLETE"
        /\ HasKey(positions, ret'.order.tradingsymbol)) =>
          LET symbol == ret'.order.tradingsymbol
              held == Get(positions, symbol).quantity
          IN  IF ret'.order.transaction_type = "SELL"
              THEN ret'.order.quantity < held =>
                      /\ HasKey(positions', symbol)
                      /\ Get(positions', symbol).quantity = held - ret'.order.quantity
              ELSE /\ HasKey(positions', symbol)
                   /\ Get(positions', symbol).quantity = held + ret'.order.quantity]_vars

-----------------------------------------------------------------------------
(* Properties of the trading window (checked under SpecClock) *)

(* C23: is_trading_time returns true exactly when the time of day t
   satisfies start <= t < end of the configured window; in particular true
   at t = start and false at t = end. *)
C23_HalfOpenWindow ==
    ret.op = "is_trading_time" =>
        (ret.value <=> (config.trading_hours.start <= ret.now
                        /\ ret.now < config.trading_hours.end))

-----------------------------------------------------------------------------
(* Properties of configuration loading (checked under SpecConfig) *)

\* the fields and the credentials section the configuration must hold
RequiredPaths ==
    {<< "trading", "mode" >>, << "trading", "capital" >>,
     << "trading", "max_loss_percentage" >>,
     << "trading", "target_profit_percentage" >>,
     << "trading", "trading_hours", "start" >>,
     << "trading", "trading_hours", "end" >>,
     << "strategy", "target_delta" >>, << "strategy", "position_sizing" >>,
     << "strategy", "adjustment_threshold" >>, << "strategy", "min_premium" >>,
     << "strategy", "max_positions" >>, << "zerodha" >>}

(* C24: constructing ConfigManager fails whenever the document lacks any
   one of the required fields (trading.mode, capital, max_loss_percentage,
   target_profit_percentage, trading_hours.start, trading_hours.end;
   strategy.target_delta, position_sizing, adjustment_threshold,
   min_premium, max_positions) or the broker credentials section. *)
C24_MissingFieldIsFatal ==
    (ret.op = "ConfigManager" /\ \E p \in RequiredPaths : p \notin ret.doc) => ret.raised

-----------------------------------------------------------------------------
(* Properties of the signal-generating queries (checked under SpecQueries) *)

Queries ==
    {"get_adjustment_trades", "check_adjustment_needed", "get_exit_signals",
     "get_entry_signals", "select_options"}

\* the argument a recorded call was made with
Argument(r) ==
    IF r.op = "get_adjustment_trades" THEN r.threshold
    ELSE IF r.op = "select_options" THEN r.spot_price
    ELSE 0

(* C26: get_adjustment_trades, check_adjustment_needed, get_exit_signals,
   get_entry_signals and select_options leave the position map, every field
   of every position and target_delta as they were, and a query called a
   second time with the same argument right after itself returns what it
   returned the first time. *)
C26_QueriesReadOnly ==
    [][ret'.op \in Queries =>
          /\ positions' = positions
          /\ target_delta' = target_delta
          /\ (ret.op = ret'.op /\ Argument(ret) = Argument(ret')) => ret' = ret]_vars

\* C26 witness: a query has returned signals for a portfolio that holds
\* positions
C26_Witness ==
    /\ ret.op = "get_exit_signals"
    /\ ~ret.raised
    /\ ret.value # << >>
    /\ Len(positions) = 2

-----------------------------------------------------------------------------
(* Properties of the position map's keys (checked under SpecKeys) *)

(* C28: after any sequence of add_position, remove_position and
   update_position calls, with any keyword names and values, every key of
   the PortfolioManager's position map maps to a position whose symbol field
   is that key, and no key occurs twice. *)
C28_KeyedBySymbol ==
    /\ \A i \in DOMAIN positions : positions[i].val.symbol = positions[i].key
    /\ \A i, j \in DOMAIN positions : positions[i].key = positions[j].key => i = j

\* C28 witness: with two positions held, an update_position call that named
\* symbol among its keywords was rejected
C28_Witness ==
    /\ ret.op = "update_position"
    /\ ret.raised
    /\ Len(positions) = 2

-----------------------------------------------------------------------------
(* Properties of exit signals on long and short positions (checked under   *)
(* SpecSigned)                                                             *)

(* C29: with positive target_profit_percentage, max_loss_percentage and
   entry_price, an exit signal with reason target_hit is emitted only for a
   position whose pnl is positive and one with reason stop_loss only for a
   position whose pnl is negative, for long and for short positions. *)
C29_ReasonAgreesWithPnl ==
    (ret.op = "get_exit_signals" /\ ~ret.raised) =>
        \A j \in DOMAIN ret.value :
            LET position == Get(positions, ret.value[j].symbol) IN
            /\ ret.value[j].reason = "target_hit" => pnl(position) > 0
            /\ ret.value[j].reason = "stop_loss" => pnl(position) < 0

====
